---- MODULE Spec2Model ----
(***************************************************************************)
(* A model of the SIGHASH preimage / digest / signing engine               *)
(* (src/src/transaction/sighash.rs) and of the script template matcher    *)
(* (src/src/script/script_template.rs).                                    *)
(*                                                                         *)
(* Byte strings are sequences of integers.  SHA256d is modelled as a free  *)
(* (injective, symbolic) constructor: its value starts with the marker -1, *)
(* which is no byte, so a digest is never equal to a literal byte buffer.  *)
(* A preimage buffer is kept as the sequence of the ten fields written to  *)
(* it, in write order; field 1 is bytes [0,4), field 2 is bytes [4,36)     *)
(* (hashPrevouts), field 3 bytes [36,68) (hashSequence), field 8 is        *)
(* hashOutputs.                                                            *)
(***************************************************************************)
EXTENDS Integers, Sequences, FiniteSets, TLC

VARIABLES tx, hash_cache, last, script, template, matched, asm, parsed

vars == <<tx, hash_cache, last, script, template, matched, asm, parsed>>

(***************************************************************************)
(* Bounds of the model.                                                    *)
(***************************************************************************)
MaxInputs == 2
MaxOutputs == 2

(***************************************************************************)
(* enum SigHash                                                            *)
(***************************************************************************)
FORKID == 64
ALL == 1
NONE == 2
SINGLE == 3
ANYONECANPAY == 128
InputsOutputs == 65
Inputs == 66
InputsOutput == 67
InputOutputs == 193
Input == 194
InputOutput == 195

SigHash ==
  {FORKID, ALL, NONE, SINGLE, ANYONECANPAY, InputsOutputs, Inputs,
   InputsOutput, InputOutputs, Input, InputOutput}

(***************************************************************************)
(* Byte-level helpers.                                                     *)
(***************************************************************************)
\* Little-endian encodings.  The model's integers stay below 2^31, so the
\* upper four bytes of a u64 are zero.
write_u32(x) ==
  <<x % 256, (x \div 256) % 256, (x \div 65536) % 256, (x \div 16777216) % 256>>

write_u64(x) == write_u32(x) \o <<0, 0, 0, 0>>

write_varint(len) ==
  IF len < 253 THEN <<len>> ELSE <<253, len % 256, (len \div 256) % 256>>

Zero32 ==
  <<0,0,0,0,0,0,0,0,0,0,0,0,0,0,0,0,0,0,0,0,0,0,0,0,0,0,0,0,0,0,0,0>>

bugged_buf ==
  <<0,0,0,0,0,0,0,0,0,0,0,0,0,0,0,0,0,0,0,0,0,0,0,0,0,0,0,0,0,0,0>> \o <<1>>

sha_256d(bytes) == <<-1, Len(bytes)>> \o bytes

RECURSIVE Concat(_)
Concat(seqs) == IF seqs = <<>> THEN <<>> ELSE Head(seqs) \o Concat(Tail(seqs))

(***************************************************************************)
(* Result<Vec<u8>>                                                         *)
(***************************************************************************)
Ok(v) == [ok |-> TRUE, val |-> v, err |-> ""]

Err(e) == [ok |-> FALSE, val |-> <<>>, err |-> e]

(***************************************************************************)
(* Transaction parts used by the engine.                                   *)
(***************************************************************************)
get_outpoint_bytes(txin) == txin.prev_tx_id \o write_u32(txin.vout)

get_sequence_as_bytes(txin) == write_u32(txin.sequence)

to_bytes_impl(txout) ==
  write_u64(txout.value) \o write_varint(Len(txout.script_pub_key)) \o txout.script_pub_key

MkInput(i) ==
  [prev_tx_id |-> <<160 + i>>, vout |-> i - 1,
   sequence |-> 65535 + i]

MkOutput(j) == [value |-> 1000 * j, script_pub_key |-> <<118, 169, j>>]

MkTx(nin, nout) ==
  [version |-> 1,
   inputs |-> [i \in 1..nin |-> MkInput(i)],
   outputs |-> [j \in 1..nout |-> MkOutput(j)],
   n_locktime |-> 0]

(***************************************************************************)
(* struct HashCache: None is the empty sequence.                           *)
(***************************************************************************)
None == <<>>

HashCacheNew == [hash_inputs |-> None, hash_sequence |-> None, hash_outputs |-> None]

(***************************************************************************)
(* Transaction::hash_sequence, hash_outputs, hash_inputs.  Each returns    *)
(* the bytes and the cache as the call leaves it.  n_tx_in is 0-based.     *)
(***************************************************************************)
hash_sequence(t, cache, sighash) ==
  IF cache.hash_sequence # None
  THEN [out |-> cache.hash_sequence, cache |-> cache]
  ELSE IF sighash \in {ALL, InputsOutputs}
       THEN LET input_sequences ==
                  Concat([i \in 1..Len(t.inputs) |-> get_sequence_as_bytes(t.inputs[i])])
                hash == sha_256d(input_sequences)
            IN [out |-> hash, cache |-> [cache EXCEPT !.hash_sequence = hash]]
       ELSE [out |-> Zero32, cache |-> cache]

\* hash_outputs without the early return on a cached value and storing the
\* digest of the SINGLE branch.
hash_outputs_overwriting(t, cache, sighash, n_tx_in) ==
  IF sighash \in {SINGLE, InputOutput, InputsOutput}
  THEN IF n_tx_in + 1 \notin DOMAIN t.outputs
       THEN [res |-> Err("Could not find output at index"), cache |-> cache]
       ELSE LET hash == sha_256d(to_bytes_impl(t.outputs[n_tx_in + 1]))
            IN [res |-> Ok(hash), cache |-> [cache EXCEPT !.hash_outputs = hash]]
  ELSE IF sighash \in {ALL, InputOutputs, InputsOutputs}
       THEN LET txout_bytes ==
                  Concat([j \in 1..Len(t.outputs) |-> to_bytes_impl(t.outputs[j])])
                hash == sha_256d(txout_bytes)
            IN [res |-> Ok(hash), cache |-> [cache EXCEPT !.hash_outputs = hash]]
       ELSE [res |-> Ok(Zero32), cache |-> cache]

\* hash_outputs storing the per-index digest of the SINGLE branch in the cache.
hash_outputs_single_cached(t, cache, sighash, n_tx_in) ==
  IF cache.hash_outputs # None
  THEN [res |-> Ok(cache.hash_outputs), cache |-> cache]
  ELSE IF sighash \in {SINGLE, InputOutput, InputsOutput}
       THEN IF n_tx_in + 1 \notin DOMAIN t.outputs
            THEN [res |-> Err("Could not find output at index"), cache |-> cache]
            ELSE LET hash == sha_256d(to_bytes_impl(t.outputs[n_tx_in + 1]))
                 IN [res |-> Ok(hash), cache |-> [cache EXCEPT !.hash_outputs = hash]]
       ELSE IF sighash \in {ALL, InputOutputs, InputsOutputs}
            THEN LET txout_bytes ==
                       Concat([j \in 1..Len(t.outputs) |-> to_bytes_impl(t.outputs[j])])
                     hash == sha_256d(txout_bytes)
                 IN [res |-> Ok(hash), cache |-> [cache EXCEPT !.hash_outputs = hash]]
            ELSE [res |-> Ok(Zero32), cache |-> cache]

hash_outputs(t, cache, sighash, n_tx_in) ==
  IF cache.hash_outputs # None
  THEN [res |-> Ok(cache.hash_outputs), cache |-> cache]
  ELSE IF sighash \in {SINGLE, InputOutput, InputsOutput}
       THEN IF n_tx_in > Len(t.outputs)
            THEN [res |-> Err("Cannot sign with SIGHASH_SINGLE given input index greater than number of outputs"),
                  cache |-> cache]
            ELSE IF n_tx_in + 1 \notin DOMAIN t.outputs
                 THEN [res |-> Err("Could not find output at index"), cache |-> cache]
                 ELSE [res |-> Ok(sha_256d(to_bytes_impl(t.outputs[n_tx_in + 1]))),
                       cache |-> cache]
       ELSE IF sighash \in {ALL, InputOutputs, InputsOutputs}
            THEN LET txout_bytes ==
                       Concat([j \in 1..Len(t.outputs) |-> to_bytes_impl(t.outputs[j])])
                     hash == sha_256d(txout_bytes)
                 IN [res |-> Ok(hash), cache |-> [cache EXCEPT !.hash_outputs = hash]]
            ELSE [res |-> Ok(Zero32), cache |-> cache]

hash_inputs(t, cache, sighash) ==
  IF cache.hash_inputs # None
  THEN [out |-> cache.hash_inputs, cache |-> cache]
  ELSE IF sighash \in {ANYONECANPAY, Input, InputOutput, InputOutputs}
       THEN [out |-> Zero32, cache |-> cache]
       ELSE LET input_bytes ==
                  Concat([i \in 1..Len(t.inputs) |-> get_outpoint_bytes(t.inputs[i])])
                hash == sha_256d(input_bytes)
            IN [out |-> hash, cache |-> [cache EXCEPT !.hash_inputs = hash]]

(***************************************************************************)
(* The external signer and DER encoder.  The signer hashes the buffer it   *)
(* is given with the named SigningHash and signs that digest; a signature  *)
(* is identified with the digest it signs (deterministic k, one key).      *)
(***************************************************************************)
sign_with_k_impl(buffer, signer_ok) ==
  IF signer_ok
  THEN [ok |-> TRUE, msg |-> sha_256d(buffer)]
  ELSE [ok |-> FALSE, msg |-> <<>>]

to_der_bytes_impl(sig) == <<-2>> \o sig.msg

(***************************************************************************)
(* Transaction::sighash_preimage_impl                                      *)
(***************************************************************************)
\* sighash_preimage_impl computing the three digests in the order in which
\* they are written to the buffer (hashPrevouts and hashSequence first).
sighash_preimage_impl_in_write_order(t, cache, n_tx_in, sighash, presigned_script, value) ==
  IF n_tx_in + 1 \notin DOMAIN t.inputs
  THEN [res |-> Err("Could not get TxIn at index"), cache |-> cache]
  ELSE LET input == t.inputs[n_tx_in + 1]
           hi == hash_inputs(t, cache, sighash)
           hs == hash_sequence(t, hi.cache, sighash)
           ho == hash_outputs(t, hs.cache, sighash, n_tx_in)
       IN IF ~ho.res.ok
          THEN [res |-> ho.res, cache |-> ho.cache]
          ELSE [res |-> Ok(<< write_u32(t.version), hi.out, hs.out,
                              get_outpoint_bytes(input),
                              write_varint(Len(presigned_script)) \o presigned_script,
                              write_u64(value), write_u32(input.sequence),
                              ho.res.val, write_u32(t.n_locktime),
                              write_u32(sighash) >>),
                cache |-> ho.cache]

sighash_preimage_impl(t, cache, n_tx_in, sighash, presigned_script, value) ==
  IF n_tx_in + 1 \notin DOMAIN t.inputs
  THEN [res |-> Err("Could not get TxIn at index"), cache |-> cache]
  ELSE LET input == t.inputs[n_tx_in + 1]
           ho == hash_outputs(t, cache, sighash, n_tx_in)
       IN IF ~ho.res.ok
          THEN [res |-> ho.res, cache |-> ho.cache]
          ELSE LET hi == hash_inputs(t, ho.cache, sighash)
                   hs == hash_sequence(t, hi.cache, sighash)
                   buffer ==
                     << write_u32(t.version),
                        hi.out,
                        hs.out,
                        get_outpoint_bytes(input),
                        write_varint(Len(presigned_script)) \o presigned_script,
                        write_u64(value),
                        write_u32(input.sequence),
                        ho.res.val,
                        write_u32(t.n_locktime),
                        write_u32(sighash) >>
               IN [res |-> Ok(buffer), cache |-> hs.cache]

(***************************************************************************)
(* Transaction::sighash_impl                                               *)
(***************************************************************************)
\* sighash_impl taking the bypass only for n_tx_in strictly beyond the outputs.
sighash_impl_strict(t, cache, n_tx_in, sighash, presigned_script, value) ==
  IF sighash = InputsOutput /\ n_tx_in > Len(t.outputs)
  THEN [res |-> Ok(bugged_buf), cache |-> cache]
  ELSE LET p == sighash_preimage_impl(t, cache, n_tx_in, sighash, presigned_script, value)
       IN IF ~p.res.ok
          THEN p
          ELSE [res |-> Ok(sha_256d(Concat(p.res.val))), cache |-> p.cache]

sighash_impl(t, cache, n_tx_in, sighash, presigned_script, value) ==
  IF sighash = InputsOutput /\ n_tx_in >= Len(t.outputs)
  THEN [res |-> Ok(bugged_buf), cache |-> cache]
  ELSE LET p == sighash_preimage_impl(t, cache, n_tx_in, sighash, presigned_script, value)
       IN IF ~p.res.ok
          THEN p
          ELSE [res |-> Ok(sha_256d(Concat(p.res.val))), cache |-> p.cache]

(***************************************************************************)
(* Transaction::sign_impl.  msg is the digest handed to ECDSA, or <<>>.    *)
(***************************************************************************)
sign_impl(t, cache, signer_ok, sighash, n_tx_in, presigned_script, value) ==
  LET p == sighash_preimage_impl(t, cache, n_tx_in, sighash, presigned_script, value)
  IN IF ~p.res.ok
     THEN [res |-> p.res, cache |-> p.cache, msg |-> <<>>]
     ELSE LET sig == sign_with_k_impl(Concat(p.res.val), signer_ok)
          IN IF ~sig.ok
             THEN [res |-> Err("signer"), cache |-> p.cache, msg |-> <<>>]
             ELSE [res |-> Ok(to_der_bytes_impl(sig) \o <<sighash % 256>>),
                   cache |-> p.cache, msg |-> sig.msg]

(***************************************************************************)
(* Script template matcher.                                                *)
(* ScriptBit and MatchToken are tagged records; unused payload fields hold *)
(* a default so that any two values compare.                               *)
(***************************************************************************)
MaxScriptLen == 2
MaxTemplateLen == 2

Rep(b, n) == [i \in 1..n |-> b]

\* ScriptBit::OpCode, ScriptBit::Push, ScriptBit::PushData
OpCodeBit(op) == [kind |-> "OpCode", op |-> op, data |-> <<>>]

PushBit(data) == [kind |-> "Push", op |-> 0, data |-> data]

PushDataBit(op, data) == [kind |-> "PushData", op |-> op, data |-> data]

\* enum MatchToken
Token(kind, op, data, len, constraint) ==
  [kind |-> kind, op |-> op, data |-> data, len |-> len, constraint |-> constraint]

OpCodeToken(op) == Token("OpCode", op, <<>>, 0, "")

PushToken(data) == Token("Push", 0, data, 0, "")

PushDataToken(op, data) == Token("PushData", op, data, 0, "")

AnyDataToken == Token("AnyData", 0, <<>>, 0, "")

DataToken(len, constraint) == Token("Data", 0, <<>>, len, constraint)

SignatureToken == Token("Signature", 0, <<>>, 0, "")

PublicKeyToken == Token("PublicKey", 0, <<>>, 0, "")

PublicKeyHashToken == Token("PublicKeyHash", 0, <<>>, 0, "")

\* enum DataLengthConstraints
DataLengthConstraints ==
  {"Equals", "GreaterThan", "LessThan", "GreaterThanOrEquals", "LessThanOrEquals"}

\* struct Match(MatchDataTypes, Vec<u8>)
Match(kind, data) == [kind |-> kind, data |-> data]

\* Signature::from_compact_impl(..).is_ok(): a compact signature is 64 bytes
\* with r non-zero.  PublicKey::from_bytes_impl(..).is_ok(): a compressed
\* (33 bytes, prefix 2 or 3) or uncompressed (65 bytes, prefix 4) point.
from_compact_impl_is_ok(buf) == Len(buf) = 64 /\ buf[1] # 0

from_bytes_impl_is_ok(buf) ==
  \/ Len(buf) = 33 /\ buf[1] \in {2, 3}
  \/ Len(buf) = 65 /\ buf[1] = 4

\* Result<Vec<Match>, ScriptTemplateErrors>
NoToken == Token("", 0, <<>>, 0, "")

NoBit == [kind |-> "", op |-> 0, data |-> <<>>]

MatchOk(matches) ==
  [done |-> TRUE, ok |-> TRUE, matches |-> matches, err |-> "",
   index |-> 0, token |-> NoToken, bit |-> NoBit]

MatchFailure(i, token, bit) ==
  [done |-> TRUE, ok |-> FALSE, matches |-> <<>>, err |-> "MatchFailure",
   index |-> i, token |-> token, bit |-> bit]

EmptyScriptDoesntMatch ==
  [done |-> TRUE, ok |-> FALSE, matches |-> <<>>, err |-> "EmptyScriptDoesntMatch",
   index |-> 0, token |-> NoToken, bit |-> NoBit]

NotMatched ==
  [done |-> FALSE, ok |-> FALSE, matches |-> <<>>, err |-> "",
   index |-> 0, token |-> NoToken, bit |-> NoBit]

\* The inner match on the DataLengthConstraints of a Data token.
constraint_holds(constraint, data_len, len) ==
  CASE constraint = "Equals" -> data_len = len
    [] constraint = "GreaterThan" -> data_len > len
    [] constraint = "LessThan" -> data_len < len
    [] constraint = "GreaterThanOrEquals" -> data_len >= len
    [] constraint = "LessThanOrEquals" -> data_len <= len

\* The first match block of match_impl: is_match.
is_match(tmpl, bit) ==
  CASE tmpl.kind = "OpCode" /\ bit.kind = "OpCode" -> tmpl.op = bit.op
    [] tmpl.kind = "Push" /\ bit.kind = "Push" -> tmpl.data = bit.data
    [] tmpl.kind = "PushData" /\ bit.kind = "PushData" ->
         tmpl.op = bit.op /\ tmpl.data = bit.data
    [] tmpl.kind = "Data" /\ bit.kind \in {"PushData", "Push"} ->
         constraint_holds(tmpl.constraint, Len(bit.data), tmpl.len)
    [] tmpl.kind = "AnyData" /\ bit.kind = "Push" -> TRUE
    [] tmpl.kind = "AnyData" /\ bit.kind = "PushData" -> TRUE
    [] tmpl.kind = "Signature" /\ bit.kind = "Push" -> from_compact_impl_is_ok(bit.data)
    [] tmpl.kind = "PublicKey" /\ bit.kind = "Push" -> from_bytes_impl_is_ok(bit.data)
    [] tmpl.kind = "PublicKeyHash" /\ bit.kind = "Push" -> Len(bit.data) = 20
    [] OTHER -> FALSE

\* The second match block of match_impl: what is pushed to matches.
captures(tmpl, bit) ==
  CASE tmpl.kind = "Data" /\ bit.kind \in {"PushData", "Push"} -> <<Match("Data", bit.data)>>
    [] tmpl.kind = "AnyData" /\ bit.kind = "Push" -> <<Match("Data", bit.data)>>
    [] tmpl.kind = "AnyData" /\ bit.kind = "PushData" -> <<Match("Data", bit.data)>>
    [] tmpl.kind = "Signature" /\ bit.kind = "Push" -> <<Match("Data", bit.data)>>
    [] tmpl.kind = "PublicKey" /\ bit.kind = "Push" -> <<Match("Data", bit.data)>>
    [] tmpl.kind = "PublicKeyHash" /\ bit.kind = "Push" -> <<Match("Data", bit.data)>>
    [] OTHER -> <<>>

Min(a, b) == IF a < b THEN a ELSE b

\* The loop over script_template.0.iter().zip(self.0.iter()).enumerate();
\* i is the 1-based position, the reported index is 0-based.
RECURSIVE match_loop(_, _, _, _)
match_loop(self, script_template, i, matches) ==
  IF i > Min(Len(script_template), Len(self))
  THEN MatchOk(matches)
  ELSE IF ~is_match(script_template[i], self[i])
       THEN MatchFailure(i - 1, script_template[i], self[i])
       ELSE match_loop(self, script_template, i + 1,
                       matches \o captures(script_template[i], self[i]))

\* match_impl without the check for an empty script.
match_impl_unguarded(self, script_template) ==
  match_loop(self, script_template, 1, <<>>)

\* Script::match_impl
match_impl(self, script_template) ==
  IF self = <<>> /\ script_template # <<>>
  THEN EmptyScriptDoesntMatch
  ELSE match_loop(self, script_template, 1, <<>>)

(***************************************************************************)
(* Scripts and templates the matcher is applied to.                        *)
(***************************************************************************)
P4 == <<222, 173, 190, 239>>

P20 == Rep(17, 20)

Sig64 == Rep(1, 64)

Pub33 == <<2>> \o Rep(7, 32)

P76 == Rep(9, 76)

ScriptBits ==
  {OpCodeBit(118), OpCodeBit(169), PushBit(P4), PushBit(P20), PushBit(Sig64),
   PushBit(Pub33), PushDataBit(76, P76)}

MatchTokens ==
  {OpCodeToken(118), PushToken(P20), PushDataToken(76, P76), AnyDataToken,
   SignatureToken, PublicKeyToken, PublicKeyHashToken}
  \cup {DataToken(20, c) : c \in DataLengthConstraints}

SeqsUpTo(S, n) == UNION {[1..k -> S] : k \in 0..n}

Scripts == SeqsUpTo(ScriptBits, MaxScriptLen)

Templates == SeqsUpTo(MatchTokens, MaxTemplateLen)

(***************************************************************************)
(* Template parser.  A string is the sequence of its characters.           *)
(***************************************************************************)
MaxSuffixLen == 3
MaxContext == 1

Digits == <<"0", "1", "2", "3", "4", "5", "6", "7", "8", "9">>

HexLower == Digits \o <<"a", "b", "c", "d", "e", "f">>

HexUpper == Digits \o <<"A", "B", "C", "D", "E", "F">>

Range(f) == {f[i] : i \in DOMAIN f}

IndexIn(list, c) == CHOOSE i \in DOMAIN list : list[i] = c

\* str::starts_with
starts_with(s, prefix) ==
  Len(s) >= Len(prefix) /\ SubSeq(s, 1, Len(prefix)) = prefix

\* str::split_once: the text before and after the first occurrence of pat.
split_once(s, pat) ==
  LET at == {i \in 1..(Len(s) - Len(pat) + 1) : SubSeq(s, i, i + Len(pat) - 1) = pat}
  IN IF at = {}
     THEN [found |-> FALSE, before |-> <<>>, after |-> <<>>]
     ELSE LET i == CHOOSE k \in at : \A m \in at : k <= m
          IN [found |-> TRUE, before |-> SubSeq(s, 1, i - 1),
              after |-> SubSeq(s, i + Len(pat), Len(s))]

\* str::split(' '): the pieces between spaces, empty pieces included.
RECURSIVE split(_)
split(s) ==
  LET sp == split_once(s, <<" ">>)
  IN IF sp.found THEN <<sp.before>> \o split(sp.after) ELSE <<s>>

\* usize::from_str and u8::from_str: decimal digits after an optional '+'.
\* The strings of the model are too short to overflow a usize.
RECURSIVE DecimalValue(_)
DecimalValue(ds) ==
  IF ds = <<>> THEN 0
  ELSE 10 * DecimalValue(SubSeq(ds, 1, Len(ds) - 1)) + (IndexIn(Digits, ds[Len(ds)]) - 1)

usize_from_str(text) ==
  LET ds == IF text # <<>> /\ text[1] = "+" THEN Tail(text) ELSE text
  IN IF ds # <<>> /\ \A i \in DOMAIN ds : ds[i] \in Range(Digits)
     THEN [ok |-> TRUE, val |-> DecimalValue(ds)]
     ELSE [ok |-> FALSE, val |-> 0]

u8_from_str(text) ==
  LET r == usize_from_str(text)
  IN IF r.ok /\ r.val <= 255 THEN r ELSE [ok |-> FALSE, val |-> 0]

\* OpCodes::from_str for the opcode names the model uses; -1 is no opcode.
OP_DATA_str == <<"O", "P", "_", "D", "A", "T", "A">>

OP_DUP_str == <<"O", "P", "_", "D", "U", "P">>

OP_SIG_str == <<"O", "P", "_", "S", "I", "G">>

OP_PUBKEY_str == <<"O", "P", "_", "P", "U", "B", "K", "E", "Y">>

OP_PUBKEYHASH_str == OP_PUBKEY_str \o <<"H", "A", "S", "H">>

OpCodeNames == {OP_DATA_str, OP_DUP_str, OP_SIG_str, OP_PUBKEY_str, OP_PUBKEYHASH_str}

\* hex::decode
HexValue(c) ==
  IF c \in Range(HexLower) THEN IndexIn(HexLower, c) - 1 ELSE IndexIn(HexUpper, c) - 1

hex_decode(code) ==
  IF Len(code) % 2 = 0 /\ \A i \in DOMAIN code : code[i] \in Range(HexLower) \cup Range(HexUpper)
  THEN [ok |-> TRUE,
        bytes |-> [k \in 1..(Len(code) \div 2) |->
                     16 * HexValue(code[2 * k - 1]) + HexValue(code[2 * k])]]
  ELSE [ok |-> FALSE, bytes |-> <<>>]

\* VarInt::get_pushdata_opcode: OP_PUSHDATA1/2/4 for a length above 75, else 0 (None).
get_pushdata_opcode(len) ==
  IF len <= 75 THEN 0 ELSE IF len <= 255 THEN 76 ELSE IF len <= 65535 THEN 77 ELSE 78

\* Result<MatchToken, ScriptTemplateErrors>; fall is "no return yet".
TokenOk(token) == [fall |-> FALSE, ok |-> TRUE, token |-> token, err |-> "", code |-> <<>>]

TokenErr(err, code) == [fall |-> FALSE, ok |-> FALSE, token |-> NoToken, err |-> err, code |-> code]

FallThrough == [fall |-> TRUE, ok |-> FALSE, token |-> NoToken, err |-> "", code |-> <<>>]

\* "Number OP_CODES"
number_op_code(code) ==
  LET num_code == u8_from_str(code)
  IN IF num_code.ok /\ num_code.val = 0 THEN TokenOk(OpCodeToken(0))
     ELSE IF num_code.ok /\ num_code.val \in 1..16 THEN TokenOk(OpCodeToken(num_code.val + 80))
     ELSE FallThrough

\* "Standard OP_CODES"
standard_op_code(code) ==
  IF code = OP_SIG_str THEN TokenOk(SignatureToken)
  ELSE IF code = OP_PUBKEY_str THEN TokenOk(PublicKeyToken)
  ELSE IF code = OP_PUBKEYHASH_str THEN TokenOk(PublicKeyHashToken)
  ELSE IF code = OP_DATA_str THEN TokenOk(AnyDataToken)
  ELSE IF code = OP_DUP_str THEN TokenOk(OpCodeToken(118))
  ELSE FallThrough

\* One "Match on <operator>" block: usize::from_str(length_str).map_err(..)?
op_data_length(code, length_str, constraint) ==
  LET len == usize_from_str(length_str)
  IN IF len.ok
     THEN TokenOk(DataToken(len.val, constraint))
     ELSE TokenErr("OpDataParse", code)

\* The OP_DATA block with the one-character operators tried first.
op_data_short_operators_first(code) ==
  IF ~starts_with(code, OP_DATA_str) THEN FallThrough
  ELSE IF split_once(code, <<"=">>).found
       THEN op_data_length(code, split_once(code, <<"=">>).after, "Equals")
  ELSE IF split_once(code, <<">">>).found
       THEN op_data_length(code, split_once(code, <<">">>).after, "GreaterThan")
  ELSE IF split_once(code, <<"<">>).found
       THEN op_data_length(code, split_once(code, <<"<">>).after, "LessThan")
  ELSE IF split_once(code, <<">", "=">>).found
       THEN op_data_length(code, split_once(code, <<">", "=">>).after, "GreaterThanOrEquals")
  ELSE IF split_once(code, <<"<", "=">>).found
       THEN op_data_length(code, split_once(code, <<"<", "=">>).after, "LessThanOrEquals")
  ELSE FallThrough

\* if code.starts_with(&OpCodes::OP_DATA.to_string()) { .. }
op_data(code) ==
  IF ~starts_with(code, OP_DATA_str) THEN FallThrough
  ELSE IF split_once(code, <<">", "=">>).found
       THEN op_data_length(code, split_once(code, <<">", "=">>).after, "GreaterThanOrEquals")
  ELSE IF split_once(code, <<"<", "=">>).found
       THEN op_data_length(code, split_once(code, <<"<", "=">>).after, "LessThanOrEquals")
  ELSE IF split_once(code, <<"=">>).found
       THEN op_data_length(code, split_once(code, <<"=">>).after, "Equals")
  ELSE IF split_once(code, <<">">>).found
       THEN op_data_length(code, split_once(code, <<">">>).after, "GreaterThan")
  ELSE IF split_once(code, <<"<">>).found
       THEN op_data_length(code, split_once(code, <<"<">>).after, "LessThan")
  ELSE FallThrough

\* "PUSHDATA OP_CODES"
push_data(code) ==
  LET data_bytes == hex_decode(code)
  IN IF ~data_bytes.ok THEN TokenErr("MalformedHex", <<>>)
     ELSE IF get_pushdata_opcode(Len(data_bytes.bytes)) # 0
          THEN TokenOk(PushDataToken(get_pushdata_opcode(Len(data_bytes.bytes)), data_bytes.bytes))
          ELSE TokenOk(PushToken(data_bytes.bytes))

\* ScriptTemplate::map_string_to_match_token
map_string_to_match_token(code) ==
  IF ~number_op_code(code).fall THEN number_op_code(code)
  ELSE IF ~standard_op_code(code).fall THEN standard_op_code(code)
  ELSE IF ~op_data(code).fall THEN op_data(code)
  ELSE push_data(code)

\* Result<ScriptTemplate, ScriptTemplateErrors>
ParseOk(tokens) == [done |-> TRUE, ok |-> TRUE, tokens |-> tokens, err |-> "", code |-> <<>>]

ParseErr(err, code) == [done |-> TRUE, ok |-> FALSE, tokens |-> <<>>, err |-> err, code |-> code]

NotParsed == [done |-> FALSE, ok |-> FALSE, tokens |-> <<>>, err |-> "", code |-> <<>>]

\* collect::<Result<Vec<_>, _>>(): the tokens, or the first error.
RECURSIVE collect(_, _)
collect(codes, tokens) ==
  IF codes = <<>> THEN ParseOk(tokens)
  ELSE LET r == map_string_to_match_token(Head(codes))
       IN IF r.ok THEN collect(Tail(codes), Append(tokens, r.token))
          ELSE ParseErr(r.err, r.code)

\* ScriptTemplate::from_asm_string_impl
from_asm_string_impl(a) == collect(split(a), <<>>)

(***************************************************************************)
(* The strings the parser is applied to: one token made of OP_DATA and a   *)
(* suffix, or another kind of token, with up to MaxContext tokens before   *)
(* and after it, joined by single spaces.                                  *)
(***************************************************************************)
SuffixChars == {">", "<", "=", "3", "x"}

OpDataCodes == {OP_DATA_str \o suf : suf \in UNION {[1..k -> SuffixChars] : k \in 0..MaxSuffixLen}}

OtherCodes == {OP_DUP_str, OP_PUBKEYHASH_str, <<"7">>, <<"a", "b">>, <<"z", "z">>}

ContextCodes == {OP_DUP_str, <<"z", "z">>, OP_DATA_str \o <<"<", "x">>}

AfterCodes == {OP_DUP_str, <<"z", "z">>}

RECURSIVE join(_)
join(codes) ==
  IF Len(codes) = 1 THEN codes[1] ELSE codes[1] \o <<" ">> \o join(Tail(codes))

AsmStrings ==
  {join(before \o <<code>> \o after) :
     before \in UNION {[1..k -> ContextCodes] : k \in 0..MaxContext},
     code \in OpDataCodes \cup OtherCodes,
     after \in UNION {[1..k -> AfterCodes] : k \in 0..MaxContext}}

(***************************************************************************)
(* Arguments of the calls.                                                 *)
(***************************************************************************)
Indexes == 0..MaxInputs

CallData ==
  {[script_code |-> <<>>, value |-> 0],
   [script_code |-> <<118, 169>>, value |-> 1000]}

NoCall ==
  [op |-> "new", n |-> 0, flag |-> ALL, script_code |-> <<>>, value |-> 0,
   res |-> Ok(<<>>), msg |-> <<>>]

Call(op, n, flag, sc, v, res, msg) ==
  [op |-> op, n |-> n, flag |-> flag, script_code |-> sc, value |-> v,
   res |-> res, msg |-> msg]

(***************************************************************************)
(* The public operations: each is one call on the transaction.             *)
(***************************************************************************)
SighashPreimage ==
  \E n \in Indexes, f \in SigHash, d \in CallData :
    \E r \in {sighash_preimage_impl(tx, hash_cache, n, f, d.script_code, d.value)} :
       /\ hash_cache' = r.cache
       /\ last' = Call("sighash_preimage", n, f, d.script_code, d.value, r.res, <<>>)
       /\ UNCHANGED <<tx, script, template, matched, asm, parsed>>

Sighash ==
  \E n \in Indexes, f \in SigHash, d \in CallData :
    \E r \in {sighash_impl(tx, hash_cache, n, f, d.script_code, d.value)} :
       /\ hash_cache' = r.cache
       /\ last' = Call("sighash", n, f, d.script_code, d.value, r.res, <<>>)
       /\ UNCHANGED <<tx, script, template, matched, asm, parsed>>

Sign ==
  \E n \in Indexes, f \in SigHash, d \in CallData, signer_ok \in BOOLEAN :
    \E r \in {sign_impl(tx, hash_cache, signer_ok, f, n, d.script_code, d.value)} :
       /\ hash_cache' = r.cache
       /\ last' = Call("sign", n, f, d.script_code, d.value, r.res, r.msg)
       /\ UNCHANGED <<tx, script, template, matched, asm, parsed>>

HashInputs ==
  \E f \in SigHash :
    \E r \in {hash_inputs(tx, hash_cache, f)} :
       /\ hash_cache' = r.cache
       /\ last' = Call("hash_inputs", 0, f, <<>>, 0, Ok(r.out), <<>>)
       /\ UNCHANGED <<tx, script, template, matched, asm, parsed>>

Init ==
  /\ \E nin \in 1..MaxInputs, nout \in 0..MaxOutputs : tx = MkTx(nin, nout)
  /\ hash_cache = HashCacheNew
  /\ last = NoCall
  /\ script = <<>>
  /\ template = <<>>
  /\ matched = NotMatched
  /\ asm = <<>>
  /\ parsed = NotParsed

Next == SighashPreimage \/ Sighash \/ Sign \/ HashInputs

Spec == Init /\ [][Next]_vars

(***************************************************************************)
(* The matcher as a state machine: a script and a template are given and   *)
(* match is applied once.                                                  *)
(***************************************************************************)
MatchAction ==
  /\ ~matched.done
  /\ matched' = match_impl(script, template)
  /\ UNCHANGED <<tx, hash_cache, last, script, template, asm, parsed>>

MatchInit ==
  /\ script \in Scripts
  /\ template \in Templates
  /\ matched = NotMatched
  /\ asm = <<>>
  /\ parsed = NotParsed
  /\ tx = MkTx(1, 0)
  /\ hash_cache = HashCacheNew
  /\ last = NoCall

MatchNext == MatchAction

MatchSpec == MatchInit /\ [][MatchNext]_vars

(***************************************************************************)
(* The parser as a state machine: an assembly string is given and          *)
(* from_asm_string is applied once.                                        *)
(***************************************************************************)
FromAsmString ==
  /\ ~parsed.done
  /\ parsed' = from_asm_string_impl(asm)
  /\ UNCHANGED <<tx, hash_cache, last, script, template, matched, asm>>

ParseInit ==
  /\ asm \in AsmStrings
  /\ parsed = NotParsed
  /\ script = <<>>
  /\ template = <<>>
  /\ matched = NotMatched
  /\ tx = MkTx(1, 0)
  /\ hash_cache = HashCacheNew
  /\ last = NoCall

ParseNext == FromAsmString

ParseSpec == ParseInit /\ [][ParseNext]_vars

(***************************************************************************)
(* Vocabulary of the claims.                                               *)
(***************************************************************************)
AnyoneCanPayFlags == {ANYONECANPAY, Input, InputOutput, InputOutputs}

SingleFlags == {SINGLE, InputsOutput, InputOutput}

CacheFields == {"hash_inputs", "hash_sequence", "hash_outputs"}

AllOutpointsDigest ==
  sha_256d(Concat([i \in 1..Len(tx.inputs) |-> get_outpoint_bytes(tx.inputs[i])]))

AllSequencesDigest ==
  sha_256d(Concat([i \in 1..Len(tx.inputs) |-> write_u32(tx.inputs[i].sequence)]))

AllOutputsDigest ==
  sha_256d(Concat([j \in 1..Len(tx.outputs) |-> to_bytes_impl(tx.outputs[j])]))

HashPrevoutsOf(preimage) == preimage[2]

HashSequenceOf(preimage) == preimage[3]

HashOutputsOf(preimage) == preimage[8]

(***************************************************************************)
(* C1: ANYONECANPAY zeroing.  Whenever sighash_preimage returns a preimage *)
(* for a flag with ANYONECANPAY set, its hashPrevouts field (bytes         *)
(* [4, 36)) is 32 zero bytes, whatever calls went before.                  *)
(***************************************************************************)
C1_AnyoneCanPayZeroing ==
  (last.op = "sighash_preimage" /\ last.res.ok /\ last.flag \in AnyoneCanPayFlags)
    => HashPrevoutsOf(last.res.val) = Zero32

(***************************************************************************)
(* C2: cache idempotence.  No call changes the value that sighash returns  *)
(* for any arguments: the answer to sighash(n, flag, script_code, value)   *)
(* is the same before and after every step.                                *)
(***************************************************************************)
C2_CacheIdempotence ==
  [][\A n \in Indexes, f \in SigHash, d \in CallData :
       sighash_impl(tx, hash_cache', n, f, d.script_code, d.value).res
         = sighash_impl(tx, hash_cache, n, f, d.script_code, d.value).res]_vars

(***************************************************************************)
(* C3: SINGLE bug.  A sighash call with flag SINGLE|FORKID and n_tx_in >=  *)
(* number of outputs returns 31 zero bytes then 0x01 and touches nothing;  *)
(* every other sighash call returns SHA256d of the preimage built in the   *)
(* state it was called in (or that preimage's error), never the bug value. *)
(***************************************************************************)
C3_SingleBug ==
  [][last'.op = "sighash" =>
       IF last'.flag = InputsOutput /\ last'.n >= Len(tx.outputs)
       THEN last'.res = Ok(bugged_buf) /\ hash_cache' = hash_cache
       ELSE LET p == sighash_preimage_impl(tx, hash_cache, last'.n, last'.flag,
                                           last'.script_code, last'.value)
            IN /\ last'.res.val # bugged_buf
               /\ IF p.res.ok
                  THEN last'.res = Ok(sha_256d(Concat(p.res.val)))
                  ELSE last'.res = p.res]_vars

C3_Witness ==
  /\ last.op = "sighash"
  /\ last.flag = InputsOutput
  /\ last.n >= Len(tx.outputs)
  /\ last.script_code # <<>>
  /\ last.res = Ok(bugged_buf)
  /\ hash_cache.hash_outputs # None

(***************************************************************************)
(* C4: sign signs the sighash message.  For a sign call, the digest handed *)
(* to ECDSA is the value sighash returns for the same arguments in the     *)
(* state of the call, and sign succeeds, unless the signer refuses,        *)
(* exactly when that sighash succeeds.                                     *)
(***************************************************************************)
C4_SignSignsSighash ==
  [][last'.op = "sign" =>
       LET s == sighash_impl(tx, hash_cache, last'.n, last'.flag,
                             last'.script_code, last'.value)
       IN /\ last'.res.ok => (s.res.ok /\ last'.msg = s.res.val)
          /\ (s.res.ok /\ last'.res.err # "signer") => last'.res.ok]_vars

(***************************************************************************)
(* C5: HashCache is write-once.  In every step, a cache field that is set  *)
(* keeps its value.                                                        *)
(***************************************************************************)
C5_WriteOnce ==
  [][\A f \in CacheFields :
       hash_cache[f] # None => hash_cache'[f] = hash_cache[f]]_vars

C5_Witness ==
  /\ \A f \in CacheFields : hash_cache[f] # None
  /\ last.op = "sighash_preimage"
  /\ last.flag = InputOutput
  /\ last.res.ok
  /\ Len(tx.outputs) = 2

(***************************************************************************)
(* C6: SingleOverflow.  sighash_preimage with a SINGLE-mode flag and       *)
(* n_tx_in greater than the number of outputs returns an error.            *)
(***************************************************************************)
C6_SingleOverflow ==
  (last.op = "sighash_preimage" /\ last.flag \in SingleFlags
     /\ last.n > Len(tx.outputs))
    => ~last.res.ok

(***************************************************************************)
(* C9: cache content.  Every cache field is unset or holds the digest of   *)
(* the whole transaction (all outpoints, all sequences, all outputs); the  *)
(* zero vector is never stored.                                            *)
(***************************************************************************)
C9_CacheContent ==
  /\ hash_cache.hash_inputs \in {None, AllOutpointsDigest}
  /\ hash_cache.hash_sequence \in {None, AllSequencesDigest}
  /\ hash_cache.hash_outputs \in {None, AllOutputsDigest}
  /\ \A f \in CacheFields : hash_cache[f] # Zero32

C9_Witness ==
  /\ last.op \in {"sighash_preimage"}
  /\ last.flag = SINGLE
  /\ last.res.ok
  /\ HashOutputsOf(last.res.val) = sha_256d(to_bytes_impl(tx.outputs[last.n + 1]))
  /\ HashOutputsOf(last.res.val) # AllOutputsDigest
  /\ HashSequenceOf(last.res.val) = Zero32
  /\ hash_cache.hash_outputs = None
  /\ hash_cache.hash_sequence = None
  /\ hash_cache.hash_inputs = AllOutpointsDigest

(***************************************************************************)
(* C10: a failed call leaves the cache unchanged.  A sighash_preimage or   *)
(* sighash call that returns an error, and a sighash call that takes the   *)
(* SINGLE|FORKID bypass, leave all three cache fields as they were.        *)
(***************************************************************************)
C10_FailureKeepsCache ==
  [][(/\ last'.op \in {"sighash", "sighash_preimage"}
      /\ \/ ~last'.res.ok
         \/ last'.op = "sighash" /\ last'.res = Ok(bugged_buf))
       => hash_cache' = hash_cache]_vars

C10_Witness ==
  /\ last.op = "sighash_preimage"
  /\ ~last.res.ok
  /\ last.flag = InputsOutput
  /\ last.n + 1 \in DOMAIN tx.inputs
  /\ hash_cache = HashCacheNew

(***************************************************************************)
(* The match predicate of a (token, bit) pair, and the capture kind of a   *)
(* token, as the claims about the matcher state them.                      *)
(***************************************************************************)
IsPush(bit) == bit.kind \in {"Push", "PushData"}

Predicate(tok, bit) ==
  \/ tok.kind = "OpCode" /\ bit.kind = "OpCode" /\ bit.op = tok.op
  \/ tok.kind = "Push" /\ bit.kind = "Push" /\ bit.data = tok.data
  \/ tok.kind = "PushData" /\ bit.kind = "PushData" /\ bit.op = tok.op /\ bit.data = tok.data
  \/ /\ tok.kind = "Data"
     /\ IsPush(bit)
     /\ \/ tok.constraint = "Equals" /\ Len(bit.data) = tok.len
        \/ tok.constraint = "GreaterThan" /\ Len(bit.data) > tok.len
        \/ tok.constraint = "LessThan" /\ Len(bit.data) < tok.len
        \/ tok.constraint = "GreaterThanOrEquals" /\ Len(bit.data) >= tok.len
        \/ tok.constraint = "LessThanOrEquals" /\ Len(bit.data) <= tok.len
  \/ tok.kind = "AnyData" /\ IsPush(bit)
  \/ tok.kind = "Signature" /\ bit.kind = "Push" /\ from_compact_impl_is_ok(bit.data)
  \/ tok.kind = "PublicKey" /\ bit.kind = "Push" /\ from_bytes_impl_is_ok(bit.data)
  \/ tok.kind = "PublicKeyHash" /\ bit.kind = "Push" /\ Len(bit.data) = 20

Walked == 1..Min(Len(template), Len(script))

Mismatches == {i \in Walked : ~Predicate(template[i], script[i])}

FirstMismatch == CHOOSE i \in Mismatches : \A j \in Mismatches : i <= j

EmptyScriptCase == script = <<>> /\ template # <<>>

CapturingKinds == {"Data", "AnyData", "Signature", "PublicKey", "PublicKeyHash"}

KindOf(tok) == IF tok.kind = "AnyData" THEN "Data" ELSE tok.kind

RECURSIVE RoleTaggedCaptures(_)
RoleTaggedCaptures(i) ==
  IF i \notin Walked
  THEN <<>>
  ELSE (IF template[i].kind \in CapturingKinds
        THEN <<Match(KindOf(template[i]), script[i].data)>>
        ELSE <<>>) \o RoleTaggedCaptures(i + 1)

(***************************************************************************)
(* C7: match success criterion.  match succeeds exactly when the script is *)
(* non-empty or the template is empty, and the match predicate holds at    *)
(* every position below min(|template|, |script|); an empty script with a  *)
(* non-empty template fails with EmptyScriptDoesntMatch; any other failure *)
(* is MatchFailure(i, template[i], script[i]) at the smallest failing i,   *)
(* and a failure carries no captures.                                      *)
(***************************************************************************)
C7_MatchCriterion ==
  matched.done =>
    /\ matched.ok <=> (~EmptyScriptCase /\ Mismatches = {})
    /\ EmptyScriptCase => matched = EmptyScriptDoesntMatch
    /\ (~EmptyScriptCase /\ Mismatches # {}) =>
         matched = MatchFailure(FirstMismatch - 1, template[FirstMismatch],
                                script[FirstMismatch])
    /\ ~matched.ok => matched.matches = <<>>

C7_Witness ==
  /\ matched.done
  /\ matched.ok
  /\ script # <<>>
  /\ Len(template) > Len(script)
  /\ matched.matches # <<>>

(***************************************************************************)
(* C8: capture kind.  On a successful match the captures are, in order,    *)
(* the payloads of the capturing tokens, each tagged with the kind of its  *)
(* token: Data for Data and AnyData, Signature, PublicKey, PublicKeyHash.  *)
(***************************************************************************)
C8_CaptureKind ==
  (matched.done /\ matched.ok) => matched.matches = RoleTaggedCaptures(1)

(***************************************************************************)
(* The OP_DATA tokens of the parsed string and what the claim about them   *)
(* expects: the operators in the order they are tried, the first of them   *)
(* that occurs in a token, and the text after its first occurrence.        *)
(***************************************************************************)
OpDataOperators ==
  << [pat |-> <<">", "=">>, constraint |-> "GreaterThanOrEquals"],
     [pat |-> <<"<", "=">>, constraint |-> "LessThanOrEquals"],
     [pat |-> <<"=">>, constraint |-> "Equals"],
     [pat |-> <<">">>, constraint |-> "GreaterThan"],
     [pat |-> <<"<">>, constraint |-> "LessThan"] >>

OccursAt(pat, s, i) ==
  i + Len(pat) - 1 <= Len(s) /\ \A k \in 1..Len(pat) : s[i + k - 1] = pat[k]

Occurs(pat, s) == \E i \in 1..Len(s) : OccursAt(pat, s, i)

FirstOperator(code) ==
  OpDataOperators[CHOOSE k \in 1..5 :
                    /\ Occurs(OpDataOperators[k].pat, code)
                    /\ \A m \in 1..(k - 1) : ~Occurs(OpDataOperators[m].pat, code)]

TextAfter(pat, code) ==
  LET i == CHOOSE k \in 1..Len(code) :
             OccursAt(pat, code, k) /\ \A m \in 1..(k - 1) : ~OccursAt(pat, code, m)
  IN [k \in 1..(Len(code) - (i + Len(pat) - 1)) |-> code[i + Len(pat) - 1 + k]]

IsOpDataCode(code) ==
  /\ starts_with(code, OP_DATA_str)
  /\ code \notin OpCodeNames
  /\ \E k \in 1..5 : Occurs(OpDataOperators[k].pat, code)

Codes == split(asm)

OpDataPositions == {i \in DOMAIN Codes : IsOpDataCode(Codes[i])}

LengthOf(code) == usize_from_str(TextAfter(FirstOperator(code).pat, code))

NoEarlierFailure(i) == \A j \in 1..(i - 1) : map_string_to_match_token(Codes[j]).ok

(***************************************************************************)
(* C11: OP_DATA operator precedence, as stated.  Every token that begins   *)
(* with OP_DATA, is no opcode name and holds an operator is classified by  *)
(* the first of >=, <=, =, >, < that occurs in it: when the text after     *)
(* that operator's first occurrence is an unsigned integer n the token is  *)
(* Data(n, constraint of that operator); when it is not, the parse of the  *)
(* whole template fails with OpDataParse carrying that token.              *)
(***************************************************************************)
C11_OpDataPrecedence ==
  parsed.done =>
    \A i \in OpDataPositions :
      IF LengthOf(Codes[i]).ok
      THEN parsed.ok =>
             parsed.tokens[i] =
               DataToken(LengthOf(Codes[i]).val, FirstOperator(Codes[i]).constraint)
      ELSE parsed = ParseErr("OpDataParse", Codes[i])

(***************************************************************************)
(* C11 as amended: the same, except that when the text is not an unsigned  *)
(* integer the parse of the whole template fails, and it fails with        *)
(* OpDataParse carrying that token when no earlier token of the template   *)
(* fails to parse (the parse returns the error of its first failing        *)
(* token).                                                                 *)
(***************************************************************************)
C11_OpDataPrecedenceFirstFailure ==
  parsed.done =>
    \A i \in OpDataPositions :
      IF LengthOf(Codes[i]).ok
      THEN parsed.ok =>
             parsed.tokens[i] =
               DataToken(LengthOf(Codes[i]).val, FirstOperator(Codes[i]).constraint)
      ELSE /\ ~parsed.ok
           /\ NoEarlierFailure(i) => parsed = ParseErr("OpDataParse", Codes[i])

C11_Witness ==
  /\ parsed.done
  /\ parsed.ok
  /\ Len(Codes) > 1
  /\ \E i \in OpDataPositions :
       /\ Codes[i] = OP_DATA_str \o <<">", "=", "3">>
       /\ parsed.tokens[i] = DataToken(3, "GreaterThanOrEquals")

====
